---------------------------- MODULE Spec2Model ----------------------------
(***************************************************************************)
(* Verification model of the data-structure benchmarking scripts:          *)
(*   BST/main.py        BinaryTree and AVLTree (insert, search, rotations) *)
(*   BST/relatorio.py   generate_html_report                               *)
(*   hash.py            HashTable with separate chaining, hash functions,  *)
(*                      the collision-counting round of the experiment     *)
(*   Arrays/sorting.py  selection_sort, quick_sort, quicksort_inplace      *)
(*   Arrays/searching.py  sequential_search, binary_search                 *)
(*   graph_dijkstra_bfs_dfs   dijkstra, bfs, dfs, generate_graph           *)
(*   graph_ganancious_search  GreedyBestFirstSearch and its generator      *)
(* Each script is an independent program, so each has a specification of   *)
(* its own over its own variables; the variables of the other scripts stay *)
(* at their initial values.                                                *)
(***************************************************************************)
EXTENDS Integers, Sequences, FiniteSets, TLC

VARIABLES
    avlRoot,      \* AVLTree.root
    avlSeq,       \* arguments of the AVLTree.insert calls made so far
    avlRaised,    \* an insert call ended with an exception (AttributeError)
    avlQuery,     \* argument of the last AVLTree.search call (<<>> : none)
    avlFound,     \* node returned by the last AVLTree.search call
    bstRoot,      \* BinaryTree.root
    bstSeq,       \* arguments of the BinaryTree.insert calls made so far
    bstQuery,     \* argument of the last BinaryTree.search call (<<>> : none)
    bstFound,     \* node returned by the last BinaryTree.search call
    htM,          \* HashTable.M
    htFunc,       \* HashTable.hash_func (its name)
    htTable,      \* HashTable.table: M buckets, each a list of <<key, value>>
    htInsercoes,  \* HashTable.insercoes
    htLog,        \* the <<key, value>> pairs of the insert calls made, in order
    htQuery,      \* argument of the last HashTable.search call (<<>> : none)
    htResult,     \* <<value, iteracoes>> returned by the last HashTable.search call
    hrN,          \* rodar_experimento_hash: N, the number of records of a round
    hrColisoes,   \* rodar_experimento_hash: colisoes_rodada
    ssInput,      \* selection_sort: the list as passed in
    ssArr,        \* selection_sort: array (sorted in place)
    ssI,          \* selection_sort: i (0-based, as in the code)
    ssJ,          \* selection_sort: j
    ssMin,        \* selection_sort: min_idx
    ssPc,         \* selection_sort: position in the function
    ssRet,        \* selection_sort: what was returned ("pending", "array", "None")
    qsInput,      \* quick_sort: the list passed to the outermost call
    qsStack,      \* quick_sort: the active calls, outermost first
    qsRet,        \* quick_sort: the value returned by the call that ended last
    qiInput,      \* quicksort_inplace: the list as passed in
    qiArr,        \* quicksort_inplace: arr (sorted in place)
    qiStack,      \* _quicksort_inplace: the active calls, outermost first
    qiSplit,      \* split: its locals i, j, pivot and the list as it was at the call
    qiRet,        \* quicksort_inplace: what was returned ("pending", "arr")
    shArr,        \* sequential_search, binary_search: arr
    shTarget,     \* sequential_search, binary_search: target
    bsLeft,       \* binary_search: left
    bsRight,      \* binary_search: right
    bsDone,       \* binary_search has returned
    bsRet,        \* binary_search: the value returned
    sqI,          \* sequential_search: i
    sqDone,       \* sequential_search has returned
    sqRet,        \* sequential_search: the value returned
    gW,           \* graph: the weight of every pair of nodes (0 : no edge)
    gStart,       \* start, the first node of the searched path
    gEnd,         \* end (goal), the last node of the searched path
    djDist,       \* dijkstra: distances
    djPrev,       \* dijkstra: previous_nodes (0 : None)
    djPq,         \* dijkstra: pq, the set of its <<distance, node>> entries
    djExpanded,   \* dijkstra: expanded_nodes
    djPc,         \* dijkstra: position in the function ("idle", "loop", "rebuild", "done")
    djPath,       \* dijkstra: the path returned
    djDistance,   \* dijkstra: the distance returned
    trAlgo,       \* the traversal called ("bfs", "dfs")
    trFrontier,   \* bfs: queue, dfs: stack; the paths of its entries, oldest first
    trVisited,    \* bfs: visited
    trExpanded,   \* bfs, dfs: expanded_nodes
    trPopped,     \* bfs, dfs: the values current_node has taken, in order
    trPc,         \* bfs, dfs: position in the function ("idle", "loop", "done")
    trPath,       \* bfs, dfs: the path returned (<<>> : None)
    trCost,       \* bfs, dfs: the total_cost returned
    gsFrontier,   \* search: frontier, the set of the paths of its entries
    gsVisited,    \* search: visited
    gsExpanded,   \* search: metrics[expanded_nodes]
    gsPc,         \* search: position in the function ("idle", "loop", "done")
    gsPath,       \* search: the path returned (<<>> : None)
    gsCost,       \* search: the total cost returned
    genFunc,      \* the generator called ("generate_graph", "create_brazilian_cities_graph")
    genEdges,     \* the add_edge calls made so far, each <<u, v, weight>>
    genI,         \* i of the loop that builds the chain
    genAttempts,  \* create_brazilian_cities_graph: attempts
    genPc,        \* position in the generator ("idle", "chain", "extra", "done")
    rpFiles,      \* the PNG files that exist in the working directory
    rpHtmlBefore, \* relatorio_desempenho.html as it was before the call
    rpHtml,       \* relatorio_desempenho.html ("absent", "old", "report")
    rpRead,       \* generate_html_report: the images read so far
    rpPc          \* generate_html_report: position in the function

avlVars == <<avlRoot, avlSeq, avlRaised, avlQuery, avlFound>>
bstVars == <<bstRoot, bstSeq, bstQuery, bstFound>>
htVars == <<htM, htFunc, htTable, htInsercoes, htLog, htQuery, htResult>>
hrVars == <<hrN, hrColisoes>>
ssVars == <<ssInput, ssArr, ssI, ssJ, ssMin, ssPc, ssRet>>
qsVars == <<qsInput, qsStack, qsRet>>
qiVars == <<qiInput, qiArr, qiStack, qiSplit, qiRet>>
shVars == <<shArr, shTarget, bsLeft, bsRight, bsDone, bsRet, sqI, sqDone, sqRet>>
grVars == <<gW, gStart, gEnd>>
djVars == <<djDist, djPrev, djPq, djExpanded, djPc, djPath, djDistance>>
trVars == <<trAlgo, trFrontier, trVisited, trExpanded, trPopped, trPc, trPath, trCost>>
gsVars == <<gsFrontier, gsVisited, gsExpanded, gsPc, gsPath, gsCost>>
genVars == <<genFunc, genEdges, genI, genAttempts, genPc>>
rpVars == <<rpFiles, rpHtmlBefore, rpHtml, rpRead, rpPc>>
vars == <<avlVars, bstVars, htVars, hrVars, ssVars, qsVars, qiVars, shVars, grVars, djVars, trVars, gsVars, genVars, rpVars>>

\* the variables of the other scripts, which a script leaves alone
exceptAvl == <<bstVars, htVars, hrVars, ssVars, qsVars, qiVars, shVars, grVars, djVars, trVars, gsVars, genVars, rpVars>>
exceptBst == <<avlVars, htVars, hrVars, ssVars, qsVars, qiVars, shVars, grVars, djVars, trVars, gsVars, genVars, rpVars>>
exceptHash == <<avlVars, bstVars, ssVars, qsVars, qiVars, shVars, grVars, djVars, trVars, gsVars, genVars, rpVars>>
exceptSs == <<avlVars, bstVars, htVars, hrVars, qsVars, qiVars, shVars, grVars, djVars, trVars, gsVars, genVars, rpVars>>
exceptQs == <<avlVars, bstVars, htVars, hrVars, ssVars, qiVars, shVars, grVars, djVars, trVars, gsVars, genVars, rpVars>>
exceptQi == <<avlVars, bstVars, htVars, hrVars, ssVars, qsVars, shVars, grVars, djVars, trVars, gsVars, genVars, rpVars>>
exceptSh == <<avlVars, bstVars, htVars, hrVars, ssVars, qsVars, qiVars, grVars, djVars, trVars, gsVars, genVars, rpVars>>
exceptGr == <<avlVars, bstVars, htVars, hrVars, ssVars, qsVars, qiVars, shVars, djVars, trVars, gsVars, genVars, rpVars>>
exceptDj == <<avlVars, bstVars, htVars, hrVars, ssVars, qsVars, qiVars, shVars, grVars, trVars, gsVars, genVars, rpVars>>
exceptTr == <<avlVars, bstVars, htVars, hrVars, ssVars, qsVars, qiVars, shVars, grVars, djVars, gsVars, genVars, rpVars>>
exceptGs == <<avlVars, bstVars, htVars, hrVars, ssVars, qsVars, qiVars, shVars, grVars, djVars, trVars, genVars, rpVars>>
exceptGen == <<avlVars, bstVars, htVars, hrVars, ssVars, qsVars, qiVars, shVars, grVars, djVars, trVars, gsVars, rpVars>>
exceptRp == <<avlVars, bstVars, htVars, hrVars, ssVars, qsVars, qiVars, shVars, grVars, djVars, trVars, gsVars, genVars>>

(***************************************************************************)
(* Bounds of the model.                                                    *)
(***************************************************************************)
MaxVal == 3        \* inserted values are drawn from 1..MaxVal
MaxInserts == 6    \* insert calls per tree
HtMaxM == 3        \* table sizes M are drawn from 1..HtMaxM
HtMaxInserts == 3  \* insert calls per hash table, and records per round
SortMaxLen == 3    \* sorted lists have 0..SortMaxLen elements
SortMaxMat == 3    \* matriculas are drawn from 1..SortMaxMat
GMaxWeight == 3    \* edge weights are drawn from {1, GMaxWeight}
GenCities == 4     \* the generators work on the first GenCities cities (12 in the code)
CbExtraEdges == 2  \* create_brazilian_cities_graph: extra_edges (8 in the code)
CbMaxAttempts == 4 \* create_brazilian_cities_graph: max_attempts (50 in the code)
GgExtraEdges == 1  \* generate_graph: num_arestas_extras (5 in the code)

\* random.randint(100, 1000)
GenMinWeight == 100
GenMaxWeight == 1000

Values == 1..MaxVal
Queries == 0..(MaxVal + 1)    \* searched values: the inserted range and two outside it

Max(a, b) == IF a > b THEN a ELSE b

(***************************************************************************)
(* class Node: a node is <<data, left, right, height>>, None is <<>>.      *)
(***************************************************************************)
None == <<>>
Node(data) == <<data, None, None, 1>>
Data(n) == n[1]
Left(n) == n[2]
Right(n) == n[3]
Height(n) == n[4]
SetLeft(n, l) == <<n[1], l, n[3], n[4]>>
SetRight(n, r) == <<n[1], n[2], r, n[4]>>
SetHeight(n, h) == <<n[1], n[2], n[3], h>>

(***************************************************************************)
(* Measures of a tree, computed from its shape (never from stored heights).*)
(***************************************************************************)
RECURSIVE TrueHeight(_)
TrueHeight(n) ==
    IF n = None THEN 0 ELSE 1 + Max(TrueHeight(Left(n)), TrueHeight(Right(n)))

RECURSIVE InOrder(_)
InOrder(n) ==
    IF n = None THEN <<>> ELSE InOrder(Left(n)) \o <<Data(n)>> \o InOrder(Right(n))

RECURSIVE Subtrees(_)
Subtrees(n) ==
    IF n = None THEN {} ELSE {n} \cup Subtrees(Left(n)) \cup Subtrees(Right(n))

TreeValues(n) == {Data(s) : s \in Subtrees(n)}
SeqValues(s) == {s[i] : i \in 1..Len(s)}
NonDecreasing(s) == \A i \in 1..(Len(s) - 1) : s[i] <= s[i + 1]
Increasing(s) == \A i \in 1..(Len(s) - 1) : s[i] < s[i + 1]

(***************************************************************************)
(* BinaryTree                                                              *)
(***************************************************************************)
RECURSIVE BstInsertNodeDupRight(_, _)
BstInsertNodeDupRight(node, data) ==
    IF node = None THEN Node(data)
    ELSE IF data < Data(node)
         THEN SetLeft(node, BstInsertNodeDupRight(Left(node), data))
         ELSE SetRight(node, BstInsertNodeDupRight(Right(node), data))

RECURSIVE BstInsertNodeDupLeft(_, _)
BstInsertNodeDupLeft(node, data) ==
    IF node = None THEN Node(data)
    ELSE IF data <= Data(node)
         THEN SetLeft(node, BstInsertNodeDupLeft(Left(node), data))
         ELSE SetRight(node, BstInsertNodeDupLeft(Right(node), data))

RECURSIVE BstInsertNode(_, _)
BstInsertNode(node, data) ==
    IF node = None THEN Node(data)
    ELSE IF data < Data(node)
         THEN SetLeft(node, BstInsertNode(Left(node), data))
         ELSE IF data > Data(node)
              THEN SetRight(node, BstInsertNode(Right(node), data))
              ELSE node

RECURSIVE BstSearchNodeLeftOnly(_, _)
BstSearchNodeLeftOnly(node, data) ==
    IF node = None \/ Data(node) = data THEN node
    ELSE BstSearchNodeLeftOnly(Left(node), data)

RECURSIVE BstSearchNode(_, _)
BstSearchNode(node, data) ==
    IF node = None \/ Data(node) = data THEN node
    ELSE IF data < Data(node)
         THEN BstSearchNode(Left(node), data)
         ELSE BstSearchNode(Right(node), data)

(***************************************************************************)
(* AVLTree                                                                 *)
(***************************************************************************)
GetHeight(node) == IF node = None THEN 0 ELSE Height(node)

GetBalance(node) ==
    IF node = None THEN 0 ELSE GetHeight(Left(node)) - GetHeight(Right(node))

UpdateHeight(n) == SetHeight(n, 1 + Max(GetHeight(Left(n)), GetHeight(Right(n))))

\* A call returns [t |-> the node it returns, raised |-> FALSE], or, when it
\* raises AttributeError on None, [t |-> its argument as mutated so far,
\* raised |-> TRUE].
Ret(t) == [t |-> t, raised |-> FALSE]
Raise(t) == [t |-> t, raised |-> TRUE]

RightRotateStaleHeight(z) ==
    IF Left(z) = None THEN Raise(z)
    ELSE LET y == Left(z)
             T3 == Right(y)
             z1 == SetLeft(z, T3)
             y1 == UpdateHeight(SetRight(y, z1))
         IN Ret(y1)

RightRotate(z) ==
    IF Left(z) = None THEN Raise(z)        \* y = None: T3 = y.right raises
    ELSE LET y == Left(z)
             T3 == Right(y)
             z1 == UpdateHeight(SetLeft(z, T3))
             y1 == UpdateHeight(SetRight(y, z1))
         IN Ret(y1)

LeftRotateWrongChild(z) ==
    IF Right(z) = None THEN Raise(z)
    ELSE LET y == Right(z)
             T2 == Right(y)
             z1 == UpdateHeight(SetRight(z, T2))
             y1 == UpdateHeight(SetLeft(y, z1))
         IN Ret(y1)

LeftRotate(z) ==
    IF Right(z) = None THEN Raise(z)       \* y = None: T2 = y.left raises
    ELSE LET y == Right(z)
             T2 == Left(y)
             z1 == UpdateHeight(SetRight(z, T2))
             y1 == UpdateHeight(SetLeft(y, z1))
         IN Ret(y1)

\* The tail of _insert_node, from the height update to the return.
Rebalance(node0, data) ==
    LET node == UpdateHeight(node0)
        balance == GetBalance(node)
    IN IF balance > 1 /\ data < Data(Left(node))              \* Left Left
       THEN RightRotate(node)
       ELSE IF balance < -1 /\ data > Data(Right(node))       \* Right Right
       THEN LeftRotate(node)
       ELSE IF balance > 1 /\ data > Data(Left(node))         \* Left Right
       THEN LET l == LeftRotate(Left(node))
            IN IF l.raised THEN Raise(node)
               ELSE RightRotate(SetLeft(node, l.t))
       ELSE IF balance < -1 /\ data < Data(Right(node))       \* Right Left
       THEN LET r == RightRotate(Right(node))
            IN IF r.raised THEN Raise(node)
               ELSE LeftRotate(SetRight(node, r.t))
       ELSE Ret(node)

RECURSIVE AvlInsertNode(_, _)
AvlInsertNode(node, data) ==
    IF node = None THEN Ret(Node(data))
    ELSE LET goLeft == data < Data(node)
             sub == AvlInsertNode(IF goLeft THEN Left(node) ELSE Right(node), data)
             \* on an exception the child object was mutated in place and the
             \* assignment to node.left / node.right is skipped: same object
             node1 == IF goLeft THEN SetLeft(node, sub.t) ELSE SetRight(node, sub.t)
         IN IF sub.raised THEN Raise(node1) ELSE Rebalance(node1, data)

RECURSIVE AvlSearchNodeLeftOnly(_, _)
AvlSearchNodeLeftOnly(node, data) ==
    IF node = None \/ Data(node) = data THEN node
    ELSE AvlSearchNodeLeftOnly(Left(node), data)

RECURSIVE AvlSearchNode(_, _)
AvlSearchNode(node, data) ==
    IF node = None \/ Data(node) = data THEN node
    ELSE IF data < Data(node)
         THEN AvlSearchNode(Left(node), data)
         ELSE AvlSearchNode(Right(node), data)

(***************************************************************************)
(* hash.py: keys are strings of decimal digits, modelled as sequences of   *)
(* digits; ord(c) of the digit d is 48 + d.                                *)
(***************************************************************************)
Keys == {<<0, 1>>, <<1, 0>>, <<0, 2>>, <<1, 1>>, <<9, 9>>}
Vals == {"a", "b"}            \* the records stored with the keys
NoValue == "None"             \* the None that search returns on a miss
HashFuncs == {"hash_func1", "hash_func2", "hash_func3"}

Ord(d) == 48 + d

RECURSIVE SumOrd(_)
SumOrd(key) == IF key = <<>> THEN 0 ELSE Ord(Head(key)) + SumOrd(Tail(key))

hash_func1(key, M) == SumOrd(key) % M

RECURSIVE Poly31(_, _, _)
Poly31(key, M, h) ==
    IF key = <<>> THEN h ELSE Poly31(Tail(key), M, (31 * h + Ord(Head(key))) % M)

hash_func2(key, M) == Poly31(key, M, 0)

RECURSIVE IntOf(_, _)
IntOf(key, k) == IF key = <<>> THEN k ELSE IntOf(Tail(key), 10 * k + Head(key))

\* A = 0.6180339887 = (AHi * 10^5 + ALo) / 10^10.  int(M * ((k * A) % 1)) is
\* computed on the decimal expansion in two limbs of five digits, which keeps
\* every intermediate value below 2^31; the result equals the floating-point
\* one for every k < 1000 and M < 50.
AHi == 61803
ALo == 39887
Limb == 100000

hash_func3(key, M) ==
    LET k == IntOf(key, 0)
        lo == k * ALo
        fracLo == lo % Limb
        fracHi == (k * AHi + lo \div Limb) % Limb
    IN (M * fracHi + (M * fracLo) \div Limb) \div Limb

HashOf(func, key, M) ==
    IF func = "hash_func1" THEN hash_func1(key, M)
    ELSE IF func = "hash_func2" THEN hash_func2(key, M)
    ELSE hash_func3(key, M)

\* self.table = [[] for _ in range(M)]; bucket h is htTable[h + 1]
EmptyTable(M) == [h \in 1..M |-> <<>>]
Bucket(table, h) == table[h + 1]

AppendToNextBucket(table, h, pair) ==
    LET g == (h + 1) % Len(table)
    IN [table EXCEPT ![g + 1] = Append(@, pair)]

AppendToBucket(table, h, pair) ==
    [table EXCEPT ![h + 1] = Append(@, pair)]

\* the loop of HashTable.search over one bucket
RECURSIVE SearchBucketFromZero(_, _, _)
SearchBucketFromZero(bucket, key, iteracoes) ==
    IF bucket = <<>> THEN <<NoValue, iteracoes>>
    ELSE IF Head(bucket)[1] = key THEN <<Head(bucket)[2], iteracoes>>
         ELSE SearchBucketFromZero(Tail(bucket), key, iteracoes + 1)

RECURSIVE SearchBucket(_, _, _)
SearchBucket(bucket, key, iteracoes) ==
    IF bucket = <<>> THEN <<NoValue, iteracoes>>
    ELSE IF Head(bucket)[1] = key THEN <<Head(bucket)[2], iteracoes + 1>>
         ELSE SearchBucket(Tail(bucket), key, iteracoes + 1)

\* if len(ht.table[h]) > 0: colisoes_rodada += 1
IsCollisionSecondOnly(bucket) == Len(bucket) = 1

IsCollision(bucket) == Len(bucket) > 0

LogKeys(log) == {log[i][1] : i \in 1..Len(log)}

(***************************************************************************)
(* Arrays: a Person is <<matricula, nome>>.  A matricula is a string of    *)
(* nine digits; strings of one length compare as the numbers they spell,   *)
(* so a matricula is modelled as a number.  Lists are 0-based in the code  *)
(* and 1-based here: array[i] is At(array, i).                             *)
(***************************************************************************)
Nomes == {"A", "B"}
Persons == (1..SortMaxMat) \X Nomes
Matricula(person) == person[1]

Lists == UNION {[1..n -> Persons] : n \in 0..SortMaxLen}

At(array, i) == array[i + 1]
Swap(array, i, j) ==
    [array EXCEPT ![i + 1] = array[j + 1], ![j + 1] = array[i + 1]]

\* low = [x for x in arr[1:] if x.matricula <= pivot.matricula]
QsLowStrict(arr) ==
    SelectSeq(Tail(arr), LAMBDA x : Matricula(x) < Matricula(Head(arr)))

QsLow(arr) ==
    SelectSeq(Tail(arr), LAMBDA x : Matricula(x) <= Matricula(Head(arr)))

\* high = [x for x in arr[1:] if x.matricula > pivot.matricula]
QsHigh(arr) ==
    SelectSeq(Tail(arr), LAMBDA x : Matricula(x) > Matricula(Head(arr)))

Frame(arr) == [arr |-> arr, pc |-> "call", low |-> <<>>]
Top(stack) == stack[Len(stack)]
Pop(stack) == SubSeq(stack, 1, Len(stack) - 1)
SetTop(stack, frame) == [stack EXCEPT ![Len(stack)] = frame]

\* split: if arr[j].matricula <= pivot.matricula
SplitTakesStrict(person, pivot) == Matricula(person) < Matricula(pivot)

SplitTakes(person, pivot) == Matricula(person) <= Matricula(pivot)

\* a call _quicksort_inplace(arr, start, end); p is set when split returns
QiFrame(start, end) == [start |-> start, end |-> end, pc |-> "call", p |-> 0]

\* split is not running
NoSplit == [i |-> 0, j |-> 0, pivot |-> <<>>, entry |-> <<>>]

\* searching.py: the arrays binary_search is meant for (sorted, matriculas distinct)
SortedDistinct(list) ==
    \A i \in 1..(Len(list) - 1) : Matricula(list[i]) < Matricula(list[i + 1])

SortedLists == {list \in Lists : SortedDistinct(list)}

\* searched matriculas: those of the records and two outside them
Targets == 0..(SortMaxMat + 1)

\* mid = (left + right) // 2
BsMid(left, right) == (left + right) \div 2

\* elif arr[mid].matricula < target
BsGoRightInverted(person, target) == Matricula(person) > target

BsGoRight(person, target) == Matricula(person) < target

(***************************************************************************)
(* Graphs: a networkx Graph over the nodes GraphNodes is the weight of     *)
(* each unordered pair of distinct nodes, 0 where there is no edge; edge   *)
(* weights are positive.  Nodes are compared as numbers where the code     *)
(* compares their labels.                                                  *)
(***************************************************************************)
GraphNodes == {1, 2, 3, 4}
Pairs == {e \in SUBSET GraphNodes : Cardinality(e) = 2}
Weights == {1, GMaxWeight}
Graphs == [Pairs -> {0} \cup Weights]
NoGraph == [e \in Pairs |-> 0]

HasEdge(G, u, v) == u # v /\ G[{u, v}] > 0
Weight(G, u, v) == G[{u, v}]
Neighbors(G, u) == {v \in GraphNodes : HasEdge(G, u, v)}

\* float('infinity'): above the distance of every path
Infinity == Cardinality(GraphNodes) * GMaxWeight + 1

\* the entry heapq.heappop returns: the least <<distance, node>>
HeapMax(pq) ==
    CHOOSE a \in pq : \A b \in pq : a[1] > b[1] \/ (a[1] = b[1] /\ a[2] >= b[2])

HeapMin(pq) ==
    CHOOSE a \in pq : \A b \in pq : a[1] < b[1] \/ (a[1] = b[1] /\ a[2] <= b[2])

\* if distance < distances[neighbor], for the neighbors of node at distance d
DjImproved(G, dist, node, d) ==
    {v \in Neighbors(G, node) : d + Weight(G, node, v) < dist[v]}

\* path.insert(0, current) while current is not None
RECURSIVE DjRebuild(_, _)
DjRebuild(prev, current) ==
    IF current = 0 THEN <<>> ELSE Append(DjRebuild(prev, prev[current]), current)

ElementsOf(path) == {path[i] : i \in 1..Len(path)}
Last(path) == path[Len(path)]

\* the orders in which a loop can meet the nodes of S
Orderings(S) ==
    {s \in [1..Cardinality(S) -> S] : \A i, j \in 1..Cardinality(S) : s[i] = s[j] => i = j}

\* sorted(S, reverse=True)
RECURSIVE SortedReverse(_)
SortedReverse(S) ==
    IF S = {} THEN <<>>
    ELSE LET m == CHOOSE x \in S : \A y \in S : y <= x
         IN  <<m>> \o SortedReverse(S \ {m})

\* bfs, dfs: total_cost of the path found
RECURSIVE PathHops(_, _)
PathHops(G, path) ==
    IF Len(path) < 2 THEN 0
    ELSE (IF HasEdge(G, path[1], path[2]) THEN 1 ELSE 0) + PathHops(G, Tail(path))

RECURSIVE PathCost(_, _)
PathCost(G, path) ==
    IF Len(path) < 2 THEN 0
    ELSE (IF HasEdge(G, path[1], path[2]) THEN Weight(G, path[1], path[2]) ELSE 0)
             + PathCost(G, Tail(path))

\* bfs: the neighbors that are not in visited
BfsFresh(G, node, visited) == Neighbors(G, node) \ visited

\* dfs: the neighbors that are not in path
DfsFreshForwardOnly(G, node, path) ==
    {v \in Neighbors(G, node) : v > node} \ ElementsOf(path)

DfsFresh(G, node, path) == Neighbors(G, node) \ ElementsOf(path)

\* new_path = path + [neighbor], for the neighbors in the order met
Extend(path, order) == [i \in 1..Len(order) |-> Append(path, order[i])]

(***************************************************************************)
(* busca_gananciosa.py: the cities are numbered in the order of the list   *)
(* cities; coordinates are those of main in hundredths of a degree, so     *)
(* that euclidean_heuristic(a, b) is the square root of HeuristicSquared.  *)
(* Heuristic values are only compared, and comparing the squares gives the *)
(* same order.                                                             *)
(***************************************************************************)
Coordinates ==
    << <<-2355, -4663>>, <<-2290, -4317>>, <<-1992, -4393>>, <<-2542, -4927>>,
       <<-3003, -5123>>, <<-2759, -4854>>, <<-2290, -4706>>, <<-2396, -4633>>,
       <<-1578, -4792>>, <<-1668, -4925>>, <<-1297, -3850>>, <<-2032, -4033>> >>

HeuristicSquared(a, b) ==
    (Coordinates[a][1] - Coordinates[b][1]) * (Coordinates[a][1] - Coordinates[b][1])
        + (Coordinates[a][2] - Coordinates[b][2]) * (Coordinates[a][2] - Coordinates[b][2])

\* the path heapq.heappop returns: that of the least heuristic value.  Every
\* node enters the frontier at most once and no two cities are equally far
\* from a third, so no two entries have the same heuristic value.
FrontierMin(frontier, goal) ==
    CHOOSE p \in frontier : \A q \in frontier :
        HeuristicSquared(Last(p), goal) <= HeuristicSquared(Last(q), goal)

\* _calculate_path_cost
RECURSIVE CalculatePathCostFromSecond(_, _)
CalculatePathCostFromSecond(G, path) ==
    IF Len(path) < 3 THEN 0
    ELSE Weight(G, path[2], path[3]) + CalculatePathCostFromSecond(G, Tail(path))

RECURSIVE CalculatePathCost(_, _)
CalculatePathCost(G, path) ==
    IF Len(path) < 2 THEN 0
    ELSE Weight(G, path[1], path[2]) + CalculatePathCost(G, Tail(path))

(***************************************************************************)
(* generate_graph and create_brazilian_cities_graph, over the first        *)
(* GenCities cities of the list.  The graph is kept as the list of the     *)
(* add_edge calls; networkx holds one edge per unordered pair.             *)
(***************************************************************************)
Cities == 1..GenCities
GenWeights == {GenMinWeight, GenMaxWeight}    \* random.randint(100, 1000), at its two ends
GenFuncs == {"generate_graph", "create_brazilian_cities_graph"}

\* graph.has_edge(u, v)
GenHasEdgeDirected(edges, u, v) ==
    \E k \in 1..Len(edges) : edges[k][1] = u /\ edges[k][2] = v

GenHasEdge(edges, u, v) ==
    \E k \in 1..Len(edges) : {edges[k][1], edges[k][2]} = {u, v}

\* graph.number_of_edges()
NumberOfEdges(edges) == Cardinality({{edges[k][1], edges[k][2]} : k \in 1..Len(edges)})

\* the number of edges at which the loop of extra edges stops
EdgeTarget(func) ==
    IF func = "generate_graph" THEN GenCities + GgExtraEdges
    ELSE GenCities - 1 + CbExtraEdges

\* the condition of the while loop of extra edges
MoreExtras(func, edges, attempts) ==
    /\ NumberOfEdges(edges) < EdgeTarget(func)
    /\ func = "create_brazilian_cities_graph" => attempts < CbMaxAttempts

(***************************************************************************)
(* relatorio.py: the four images generate_html_report reads, in the order  *)
(* it opens them.                                                          *)
(***************************************************************************)
Images ==
    <<"comparacao_tempo_insercao.png", "comparacao_tempo_busca.png",
      "comparacao_memoria_insercao.png", "comparacao_memoria_busca.png">>

ImageSet == {Images[k] : k \in 1..Len(Images)}

\* open(name, "rb") succeeds; it raises FileNotFoundError otherwise
CanOpenAlways(files, name) == TRUE

CanOpen(files, name) == name \in files

(***************************************************************************)
(* Initial values                                                          *)
(***************************************************************************)
AvlInit ==
    /\ avlRoot = None
    /\ avlSeq = <<>>
    /\ avlRaised = FALSE
    /\ avlQuery = <<>>
    /\ avlFound = None

BstInit ==
    /\ bstRoot = None
    /\ bstSeq = <<>>
    /\ bstQuery = <<>>
    /\ bstFound = None

\* no hash table has been built
HtIdle ==
    /\ htM = 0
    /\ htFunc = "hash_func1"
    /\ htTable = <<>>
    /\ htInsercoes = 0
    /\ htLog = <<>>
    /\ htQuery = <<>>
    /\ htResult = <<>>
    /\ hrN = 0
    /\ hrColisoes = 0

\* selection_sort has not been called
SsIdle ==
    /\ ssInput = <<>>
    /\ ssArr = <<>>
    /\ ssI = 0
    /\ ssJ = 0
    /\ ssMin = 0
    /\ ssPc = "idle"
    /\ ssRet = "pending"

\* quick_sort has not been called
QsIdle ==
    /\ qsInput = <<>>
    /\ qsStack = <<>>
    /\ qsRet = <<>>

\* quicksort_inplace has not been called
QiIdle ==
    /\ qiInput = <<>>
    /\ qiArr = <<>>
    /\ qiStack = <<>>
    /\ qiSplit = NoSplit
    /\ qiRet = "pending"

\* no search has been called
ShIdle ==
    /\ shArr = <<>>
    /\ shTarget = 0
    /\ bsLeft = 0
    /\ bsRight = 0
    /\ bsDone = FALSE
    /\ bsRet = -1
    /\ sqI = 0
    /\ sqDone = FALSE
    /\ sqRet = -1

\* no graph has been built
GrIdle ==
    /\ gW = NoGraph
    /\ gStart = 0
    /\ gEnd = 0

\* dijkstra has not been called
DjIdle ==
    /\ djDist = <<>>
    /\ djPrev = <<>>
    /\ djPq = {}
    /\ djExpanded = 0
    /\ djPc = "idle"
    /\ djPath = <<>>
    /\ djDistance = 0

\* neither bfs nor dfs has been called
TrIdle ==
    /\ trAlgo = "bfs"
    /\ trFrontier = <<>>
    /\ trVisited = {}
    /\ trExpanded = 0
    /\ trPopped = <<>>
    /\ trPc = "idle"
    /\ trPath = <<>>
    /\ trCost = 0

\* search has not been called
GsIdle ==
    /\ gsFrontier = {}
    /\ gsVisited = {}
    /\ gsExpanded = 0
    /\ gsPc = "idle"
    /\ gsPath = <<>>
    /\ gsCost = 0

\* no generator has been called
GenIdle ==
    /\ genFunc = "generate_graph"
    /\ genEdges = <<>>
    /\ genI = 0
    /\ genAttempts = 0
    /\ genPc = "idle"

\* generate_html_report has not been called
RpIdle ==
    /\ rpFiles = {}
    /\ rpHtmlBefore = "absent"
    /\ rpHtml = "absent"
    /\ rpRead = <<>>
    /\ rpPc = "idle"

(***************************************************************************)
(* AVLTree operations.  run_tests does not catch the exception of an       *)
(* insert, so nothing runs after one.                                      *)
(***************************************************************************)
AvlInsert ==
    /\ ~avlRaised
    /\ Len(avlSeq) < MaxInserts
    /\ \E data \in Values :
          LET r == AvlInsertNode(avlRoot, data)
          IN /\ avlRoot' = r.t
             /\ avlRaised' = r.raised
             /\ avlSeq' = Append(avlSeq, data)
    /\ UNCHANGED <<avlQuery, avlFound, exceptAvl>>

AvlSearch ==
    /\ ~avlRaised
    /\ \E data \in Queries :
          /\ avlQuery' = <<data>>
          /\ avlFound' = AvlSearchNode(avlRoot, data)
    /\ UNCHANGED <<avlRoot, avlSeq, avlRaised, exceptAvl>>

AvlNext == AvlInsert \/ AvlSearch

InitAVL ==
    /\ BstInit
    /\ HtIdle
    /\ SsIdle
    /\ QsIdle
    /\ QiIdle
    /\ ShIdle
    /\ GrIdle
    /\ DjIdle
    /\ TrIdle
    /\ GsIdle
    /\ GenIdle
    /\ RpIdle
    /\ avlRoot = None
    /\ avlSeq = <<>>
    /\ avlRaised = FALSE
    /\ avlQuery = <<>>
    /\ avlFound = None


SpecAVL == InitAVL /\ [][AvlNext]_vars

(***************************************************************************)
(* BinaryTree operations                                                   *)
(***************************************************************************)
BstInsert ==
    /\ Len(bstSeq) < MaxInserts
    /\ \E data \in Values :
          /\ bstRoot' = BstInsertNode(bstRoot, data)
          /\ bstSeq' = Append(bstSeq, data)
    /\ UNCHANGED <<bstQuery, bstFound, exceptBst>>

BstSearch ==
    /\ \E data \in Queries :
          /\ bstQuery' = <<data>>
          /\ bstFound' = BstSearchNode(bstRoot, data)
    /\ UNCHANGED <<bstRoot, bstSeq, exceptBst>>

BstNext == BstInsert \/ BstSearch

InitBST ==
    /\ AvlInit
    /\ HtIdle
    /\ SsIdle
    /\ QsIdle
    /\ QiIdle
    /\ ShIdle
    /\ GrIdle
    /\ DjIdle
    /\ TrIdle
    /\ GsIdle
    /\ GenIdle
    /\ RpIdle
    /\ bstRoot = None
    /\ bstSeq = <<>>
    /\ bstQuery = <<>>
    /\ bstFound = None


SpecBST == InitBST /\ [][BstNext]_vars

(***************************************************************************)
(* HashTable operations: a table HashTable(M, hash_func) with M >= 1, then *)
(* insert and search calls in any order.                                   *)
(***************************************************************************)
InitHash ==
    /\ AvlInit
    /\ BstInit
    /\ SsIdle
    /\ QsIdle
    /\ QiIdle
    /\ ShIdle
    /\ GrIdle
    /\ DjIdle
    /\ TrIdle
    /\ GsIdle
    /\ GenIdle
    /\ RpIdle
    /\ hrN = 0
    /\ hrColisoes = 0
    /\ htM \in 1..HtMaxM
    /\ htFunc \in HashFuncs
    /\ htTable = EmptyTable(htM)
    /\ htInsercoes = 0
    /\ htLog = <<>>
    /\ htQuery = <<>>
    /\ htResult = <<>>


HashInsert ==
    /\ Len(htLog) < HtMaxInserts
    /\ \E key \in Keys, value \in Vals :
          LET h == HashOf(htFunc, key, htM)
          IN /\ htTable' = AppendToBucket(htTable, h, <<key, value>>)
             /\ htInsercoes' = htInsercoes + 1
             /\ htLog' = Append(htLog, <<key, value>>)
    /\ UNCHANGED <<htM, htFunc, htQuery, htResult, hrVars, exceptHash>>

HashSearch ==
    /\ \E key \in Keys :
          LET h == HashOf(htFunc, key, htM)
          IN /\ htQuery' = <<key>>
             /\ htResult' = SearchBucket(Bucket(htTable, h), key, 0)
    /\ UNCHANGED <<htM, htFunc, htTable, htInsercoes, htLog, hrVars, exceptHash>>

HashNext == HashInsert \/ HashSearch

SpecHash == InitHash /\ [][HashNext]_vars

(***************************************************************************)
(* rodar_experimento_hash(N, M, hash_func): each round builds a table,     *)
(* inserts N records with pairwise distinct keys while counting            *)
(* collisions, then searches keys sampled from the records.  The records   *)
(* of gerar_registros are drawn one at a time, when the loop reaches them. *)
(***************************************************************************)
InitRound ==
    /\ AvlInit
    /\ BstInit
    /\ SsIdle
    /\ QsIdle
    /\ QiIdle
    /\ ShIdle
    /\ GrIdle
    /\ DjIdle
    /\ TrIdle
    /\ GsIdle
    /\ GenIdle
    /\ RpIdle
    /\ hrN \in 1..HtMaxInserts
    /\ hrColisoes = 0
    /\ htM \in 1..HtMaxM
    /\ htFunc \in HashFuncs
    /\ htTable = EmptyTable(htM)
    /\ htInsercoes = 0
    /\ htLog = <<>>
    /\ htQuery = <<>>
    /\ htResult = <<>>


RoundInsert ==
    /\ Len(htLog) < hrN
    /\ \E key \in Keys \ LogKeys(htLog), value \in Vals :
          LET h == HashOf(htFunc, key, htM)
          IN /\ hrColisoes' = IF IsCollision(Bucket(htTable, h))
                               THEN hrColisoes + 1 ELSE hrColisoes
             /\ htTable' = AppendToBucket(htTable, h, <<key, value>>)
             /\ htInsercoes' = htInsercoes + 1
             /\ htLog' = Append(htLog, <<key, value>>)
    /\ UNCHANGED <<htM, htFunc, htQuery, htResult, hrN, exceptHash>>

RoundSearch ==
    /\ Len(htLog) = hrN
    /\ \E key \in LogKeys(htLog) :
          LET h == HashOf(htFunc, key, htM)
          IN /\ htQuery' = <<key>>
             /\ htResult' = SearchBucket(Bucket(htTable, h), key, 0)
    /\ UNCHANGED <<htM, htFunc, htTable, htInsercoes, htLog, hrVars, exceptHash>>

\* the next iteration of "for _ in range(rodadas)": a new table, a new count
RoundNew ==
    /\ Len(htLog) = hrN
    /\ htTable' = EmptyTable(htM)
    /\ htInsercoes' = 0
    /\ htLog' = <<>>
    /\ hrColisoes' = 0
    /\ htQuery' = <<>>
    /\ htResult' = <<>>
    /\ UNCHANGED <<htM, htFunc, hrN, exceptHash>>

RoundNext == RoundInsert \/ RoundSearch \/ RoundNew

SpecRound == InitRound /\ [][RoundNext]_vars

(***************************************************************************)
(* selection_sort(array), one step per loop iteration.  The return         *)
(* statement is part of the body of the outer for loop.                    *)
(***************************************************************************)
InitSelection ==
    /\ AvlInit
    /\ BstInit
    /\ HtIdle
    /\ QsIdle
    /\ QiIdle
    /\ ShIdle
    /\ GrIdle
    /\ DjIdle
    /\ TrIdle
    /\ GsIdle
    /\ GenIdle
    /\ RpIdle
    /\ ssInput \in Lists
    /\ ssArr = ssInput
    /\ ssI = 0
    /\ ssJ = 0
    /\ ssMin = 0
    /\ ssPc = "for_i"
    /\ ssRet = "pending"


\* for i in range(length): min_idx = i
SsForI ==
    /\ ssPc = "for_i"
    /\ ssI < Len(ssArr)
    /\ ssMin' = ssI
    /\ ssJ' = ssI + 1
    /\ ssPc' = "for_j"
    /\ UNCHANGED <<ssInput, ssArr, ssI, ssRet, exceptSs>>

\* range(length) is exhausted: the function ends without a return statement
SsFallOff ==
    /\ ssPc = "for_i"
    /\ ssI >= Len(ssArr)
    /\ ssPc' = "done"
    /\ ssRet' = "None"
    /\ UNCHANGED <<ssInput, ssArr, ssI, ssJ, ssMin, exceptSs>>

\* for j in range(i + 1, length): if array[j] < array[min_idx]: min_idx = j
SsForJ ==
    /\ ssPc = "for_j"
    /\ ssJ < Len(ssArr)
    /\ ssMin' = IF Matricula(At(ssArr, ssJ)) < Matricula(At(ssArr, ssMin))
                THEN ssJ ELSE ssMin
    /\ ssJ' = ssJ + 1
    /\ UNCHANGED <<ssInput, ssArr, ssI, ssPc, ssRet, exceptSs>>

\* if min_idx != i: swap
SsSwap ==
    /\ ssPc = "for_j"
    /\ ssJ >= Len(ssArr)
    /\ ssArr' = IF ssMin # ssI THEN Swap(ssArr, ssI, ssMin) ELSE ssArr
    /\ ssPc' = "return"
    /\ UNCHANGED <<ssInput, ssI, ssJ, ssMin, ssRet, exceptSs>>

\* return array
SsReturn ==
    /\ ssPc = "return"
    /\ ssPc' = "done"
    /\ ssRet' = "array"
    /\ UNCHANGED <<ssInput, ssArr, ssI, ssJ, ssMin, exceptSs>>

SsNext == SsForI \/ SsFallOff \/ SsForJ \/ SsSwap \/ SsReturn

SpecSelection == InitSelection /\ [][SsNext]_vars

(***************************************************************************)
(* quick_sort(arr), one step per call, per return and per continuation of  *)
(* a call after a recursive call has returned.  The interpreter runs the   *)
(* one thread of the script until it ends, hence the weak fairness.        *)
(***************************************************************************)
InitQuick ==
    /\ AvlInit
    /\ BstInit
    /\ HtIdle
    /\ SsIdle
    /\ QiIdle
    /\ ShIdle
    /\ GrIdle
    /\ DjIdle
    /\ TrIdle
    /\ GsIdle
    /\ GenIdle
    /\ RpIdle
    /\ qsInput \in Lists
    /\ qsStack = <<Frame(qsInput)>>
    /\ qsRet = <<>>


\* if len(arr) <= 1: return arr
QsReturnBase ==
    /\ qsStack # <<>>
    /\ Top(qsStack).pc = "call"
    /\ Len(Top(qsStack).arr) <= 1
    /\ qsRet' = Top(qsStack).arr
    /\ qsStack' = Pop(qsStack)
    /\ UNCHANGED <<qsInput, exceptQs>>

\* pivot, low and high are built and quick_sort(low) is called
QsCallLow ==
    /\ qsStack # <<>>
    /\ Top(qsStack).pc = "call"
    /\ Len(Top(qsStack).arr) > 1
    /\ qsStack' = Append(SetTop(qsStack, [Top(qsStack) EXCEPT !.pc = "low"]),
                         Frame(QsLow(Top(qsStack).arr)))
    /\ UNCHANGED <<qsInput, qsRet, exceptQs>>

\* quick_sort(low) has returned; quick_sort(high) is called
QsCallHigh ==
    /\ qsStack # <<>>
    /\ Top(qsStack).pc = "low"
    /\ qsStack' = Append(SetTop(qsStack, [Top(qsStack) EXCEPT !.pc = "high", !.low = qsRet]),
                         Frame(QsHigh(Top(qsStack).arr)))
    /\ UNCHANGED <<qsInput, qsRet, exceptQs>>

\* quick_sort(high) has returned: return quick_sort(low) + [pivot] + quick_sort(high)
QsReturnConcat ==
    /\ qsStack # <<>>
    /\ Top(qsStack).pc = "high"
    /\ qsRet' = Top(qsStack).low \o <<Head(Top(qsStack).arr)>> \o qsRet
    /\ qsStack' = Pop(qsStack)
    /\ UNCHANGED <<qsInput, exceptQs>>

QsNext == QsReturnBase \/ QsCallLow \/ QsCallHigh \/ QsReturnConcat

SpecQuick == InitQuick /\ [][QsNext]_vars /\ WF_vars(QsNext)

(***************************************************************************)
(* quicksort_inplace(arr): _quicksort_inplace with one step per call, per  *)
(* return and per continuation after a recursive call, and split with one  *)
(* step per iteration of its for loop.  Indices are 0-based as in the      *)
(* code.  The value returned is the list arr itself, which the model keeps *)
(* in qiArr.                                                               *)
(***************************************************************************)
InitInplace ==
    /\ AvlInit
    /\ BstInit
    /\ HtIdle
    /\ SsIdle
    /\ QsIdle
    /\ ShIdle
    /\ GrIdle
    /\ DjIdle
    /\ TrIdle
    /\ GsIdle
    /\ GenIdle
    /\ RpIdle
    /\ qiInput \in Lists
    /\ qiArr = qiInput
    /\ qiStack = <<QiFrame(0, Len(qiInput) - 1)>>
    /\ qiSplit = NoSplit
    /\ qiRet = "pending"


\* the value of the outermost call is what quicksort_inplace returns
QiReturned(stack) == IF stack = <<>> THEN "arr" ELSE "pending"

\* if start < end is false: return arr
QiReturnBase ==
    /\ qiStack # <<>>
    /\ Top(qiStack).pc = "call"
    /\ ~(Top(qiStack).start < Top(qiStack).end)
    /\ qiStack' = Pop(qiStack)
    /\ qiRet' = QiReturned(qiStack')
    /\ UNCHANGED <<qiInput, qiArr, qiSplit, exceptQi>>

\* p = split(arr, start, end) is called: pivot = arr[end]; i = start - 1
QiSplitCall ==
    /\ qiStack # <<>>
    /\ Top(qiStack).pc = "call"
    /\ Top(qiStack).start < Top(qiStack).end
    /\ qiStack' = SetTop(qiStack, [Top(qiStack) EXCEPT !.pc = "split"])
    /\ qiSplit' = [i |-> Top(qiStack).start - 1, j |-> Top(qiStack).start,
                   pivot |-> At(qiArr, Top(qiStack).end), entry |-> qiArr]
    /\ UNCHANGED <<qiInput, qiArr, qiRet, exceptQi>>

\* for j in range(start, end): one iteration
QiSplitLoop ==
    /\ qiStack # <<>>
    /\ Top(qiStack).pc = "split"
    /\ qiSplit.j < Top(qiStack).end
    /\ IF SplitTakes(At(qiArr, qiSplit.j), qiSplit.pivot)
       THEN /\ qiArr' = Swap(qiArr, qiSplit.i + 1, qiSplit.j)
            /\ qiSplit' = [qiSplit EXCEPT !.i = qiSplit.i + 1, !.j = qiSplit.j + 1]
       ELSE /\ qiArr' = qiArr
            /\ qiSplit' = [qiSplit EXCEPT !.j = qiSplit.j + 1]
    /\ UNCHANGED <<qiInput, qiStack, qiRet, exceptQi>>

\* the loop is over: arr[i + 1], arr[end] are swapped, split returns i + 1,
\* and _quicksort_inplace(arr, start, p - 1) is called
QiSplitReturn ==
    /\ qiStack # <<>>
    /\ Top(qiStack).pc = "split"
    /\ qiSplit.j = Top(qiStack).end
    /\ qiArr' = Swap(qiArr, qiSplit.i + 1, Top(qiStack).end)
    /\ qiStack' = Append(SetTop(qiStack, [Top(qiStack) EXCEPT !.pc = "left", !.p = qiSplit.i + 1]),
                         QiFrame(Top(qiStack).start, qiSplit.i))
    /\ UNCHANGED <<qiInput, qiSplit, qiRet, exceptQi>>

\* the call on start..p - 1 has returned; _quicksort_inplace(arr, p + 1, end) is called
QiCallRight ==
    /\ qiStack # <<>>
    /\ Top(qiStack).pc = "left"
    /\ qiStack' = Append(SetTop(qiStack, [Top(qiStack) EXCEPT !.pc = "right"]),
                         QiFrame(Top(qiStack).p + 1, Top(qiStack).end))
    /\ UNCHANGED <<qiInput, qiArr, qiSplit, qiRet, exceptQi>>

\* the call on p + 1..end has returned: return arr
QiReturn ==
    /\ qiStack # <<>>
    /\ Top(qiStack).pc = "right"
    /\ qiStack' = Pop(qiStack)
    /\ qiRet' = QiReturned(qiStack')
    /\ UNCHANGED <<qiInput, qiArr, qiSplit, exceptQi>>

QiNext ==
    \/ QiReturnBase
    \/ QiSplitCall
    \/ QiSplitLoop
    \/ QiSplitReturn
    \/ QiCallRight
    \/ QiReturn

SpecInplace == InitInplace /\ [][QiNext]_vars /\ WF_vars(QiNext)

(***************************************************************************)
(* binary_search(arr, target) and sequential_search(arr, target) on the    *)
(* same sorted array, one step per loop iteration.  The two calls do not   *)
(* share state, so their steps are taken in any order; each runs to its    *)
(* return.                                                                 *)
(***************************************************************************)
InitSearch ==
    /\ AvlInit
    /\ BstInit
    /\ HtIdle
    /\ SsIdle
    /\ QsIdle
    /\ QiIdle
    /\ GrIdle
    /\ DjIdle
    /\ TrIdle
    /\ GsIdle
    /\ GenIdle
    /\ RpIdle
    /\ shArr \in SortedLists
    /\ shTarget \in Targets
    /\ bsLeft = 0
    /\ bsRight = Len(shArr) - 1
    /\ bsDone = FALSE
    /\ bsRet = -1
    /\ sqI = 0
    /\ sqDone = FALSE
    /\ sqRet = -1


\* while left <= right: one iteration
BsProbe ==
    /\ ~bsDone
    /\ bsLeft <= bsRight
    /\ LET mid == BsMid(bsLeft, bsRight) IN
         IF Matricula(At(shArr, mid)) = shTarget
         THEN /\ bsDone' = TRUE
              /\ bsRet' = mid
              /\ UNCHANGED <<bsLeft, bsRight>>
         ELSE IF BsGoRight(At(shArr, mid), shTarget)
         THEN /\ bsLeft' = mid + 1
              /\ UNCHANGED <<bsRight, bsDone, bsRet>>
         ELSE /\ bsRight' = mid - 1
              /\ UNCHANGED <<bsLeft, bsDone, bsRet>>
    /\ UNCHANGED <<shArr, shTarget, sqI, sqDone, sqRet, exceptSh>>

\* the while loop is over: return -1
BsMiss ==
    /\ ~bsDone
    /\ bsLeft > bsRight
    /\ bsDone' = TRUE
    /\ bsRet' = -1
    /\ UNCHANGED <<shArr, shTarget, bsLeft, bsRight, sqI, sqDone, sqRet, exceptSh>>

\* for i, person in enumerate(arr): one iteration
SqProbe ==
    /\ ~sqDone
    /\ sqI < Len(shArr)
    /\ IF Matricula(At(shArr, sqI)) = shTarget
       THEN /\ sqDone' = TRUE
            /\ sqRet' = sqI
            /\ sqI' = sqI
       ELSE /\ sqI' = sqI + 1
            /\ UNCHANGED <<sqDone, sqRet>>
    /\ UNCHANGED <<shArr, shTarget, bsLeft, bsRight, bsDone, bsRet, exceptSh>>

\* the for loop is over: return -1
SqMiss ==
    /\ ~sqDone
    /\ sqI >= Len(shArr)
    /\ sqDone' = TRUE
    /\ sqRet' = -1
    /\ UNCHANGED <<shArr, shTarget, bsLeft, bsRight, bsDone, bsRet, sqI, exceptSh>>

BsNext == BsProbe \/ BsMiss

SqNext == SqProbe \/ SqMiss

SearchNext == BsNext \/ SqNext

SpecSearch == InitSearch /\ [][SearchNext]_vars /\ WF_vars(BsNext) /\ WF_vars(SqNext)

(***************************************************************************)
(* dijkstra(graph, start, end), one step per iteration of the while loop   *)
(* and one for the reconstruction of the path.                             *)
(***************************************************************************)
InitDijkstra ==
    /\ AvlInit
    /\ BstInit
    /\ HtIdle
    /\ SsIdle
    /\ QsIdle
    /\ QiIdle
    /\ ShIdle
    /\ TrIdle
    /\ GsIdle
    /\ GenIdle
    /\ RpIdle
    /\ gW \in Graphs
    /\ gStart \in GraphNodes
    /\ gEnd \in GraphNodes
    /\ djDist = [n \in GraphNodes |-> IF n = gStart THEN 0 ELSE Infinity]
    /\ djPrev = [n \in GraphNodes |-> 0]
    /\ djPq = {<<0, gStart>>}
    /\ djExpanded = 0
    /\ djPc = "loop"
    /\ djPath = <<>>
    /\ djDistance = 0

\* heappop; if current_distance > distances[current_node]: continue
DjSkip ==
    /\ djPc = "loop"
    /\ djPq # {}
    /\ HeapMin(djPq)[1] > djDist[HeapMin(djPq)[2]]
    /\ djPq' = djPq \ {HeapMin(djPq)}
    /\ djExpanded' = djExpanded + 1
    /\ UNCHANGED <<djDist, djPrev, djPc, djPath, djDistance, exceptDj>>

\* heappop; if current_node == end: break
DjBreak ==
    /\ djPc = "loop"
    /\ djPq # {}
    /\ ~(HeapMin(djPq)[1] > djDist[HeapMin(djPq)[2]])
    /\ HeapMin(djPq)[2] = gEnd
    /\ djPq' = djPq \ {HeapMin(djPq)}
    /\ djExpanded' = djExpanded + 1
    /\ djPc' = "rebuild"
    /\ UNCHANGED <<djDist, djPrev, djPath, djDistance, exceptDj>>

\* heappop; the for loop over the neighbors of current_node
DjRelax ==
    /\ djPc = "loop"
    /\ djPq # {}
    /\ ~(HeapMin(djPq)[1] > djDist[HeapMin(djPq)[2]])
    /\ HeapMin(djPq)[2] # gEnd
    /\ LET d == HeapMin(djPq)[1]
           node == HeapMin(djPq)[2]
           better == DjImproved(gW, djDist, node, d)
       IN  /\ djDist' = [v \in GraphNodes |->
                           IF v \in better THEN d + Weight(gW, node, v) ELSE djDist[v]]
           /\ djPrev' = [v \in GraphNodes |-> IF v \in better THEN node ELSE djPrev[v]]
           /\ djPq' = (djPq \ {HeapMin(djPq)})
                          \cup {<<d + Weight(gW, node, v), v>> : v \in better}
    /\ djExpanded' = djExpanded + 1
    /\ UNCHANGED <<djPc, djPath, djDistance, exceptDj>>

\* while pq: the queue is empty
DjExhausted ==
    /\ djPc = "loop"
    /\ djPq = {}
    /\ djPc' = "rebuild"
    /\ UNCHANGED <<djDist, djPrev, djPq, djExpanded, djPath, djDistance, exceptDj>>

\* the path is rebuilt from previous_nodes; return path, distances[end], expanded_nodes
DjReturn ==
    /\ djPc = "rebuild"
    /\ djPath' = DjRebuild(djPrev, gEnd)
    /\ djDistance' = djDist[gEnd]
    /\ djPc' = "done"
    /\ UNCHANGED <<djDist, djPrev, djPq, djExpanded, exceptDj>>

DjNext == DjSkip \/ DjBreak \/ DjRelax \/ DjExhausted \/ DjReturn

SpecDijkstra == InitDijkstra /\ [][DjNext]_vars

(***************************************************************************)
(* bfs(graph, start, end) and dfs(graph, start, end), one step per         *)
(* iteration of the while loop.  graph.neighbors yields the neighbors in   *)
(* the order the edges were added, which is any order; dfs sorts them.     *)
(* A call runs until it returns, hence the weak fairness.                  *)
(***************************************************************************)
InitTraversal ==
    /\ AvlInit
    /\ BstInit
    /\ HtIdle
    /\ SsIdle
    /\ QsIdle
    /\ QiIdle
    /\ ShIdle
    /\ DjIdle
    /\ GsIdle
    /\ GenIdle
    /\ RpIdle
    /\ gW \in Graphs
    /\ gStart \in GraphNodes
    /\ gEnd \in GraphNodes
    /\ trAlgo \in {"bfs", "dfs"}
    /\ trFrontier = <<(<<gStart>>)>>
    /\ trVisited = IF trAlgo = "bfs" THEN {gStart} ELSE {}
    /\ trExpanded = 0
    /\ trPopped = <<>>
    /\ trPc = "loop"
    /\ trPath = <<>>
    /\ trCost = 0

\* bfs: popleft; current_node == end: return path, total_cost, expanded_nodes
BfsFound ==
    /\ trAlgo = "bfs" /\ trPc = "loop"
    /\ trFrontier # <<>>
    /\ Last(Head(trFrontier)) = gEnd
    /\ trFrontier' = Tail(trFrontier)
    /\ trExpanded' = trExpanded + 1
    /\ trPopped' = Append(trPopped, gEnd)
    /\ trPath' = Head(trFrontier)
    /\ trCost' = PathCost(gW, Head(trFrontier))
    /\ trPc' = "done"
    /\ UNCHANGED <<trAlgo, trVisited, exceptTr>>

\* bfs: popleft; the unvisited neighbors are marked and queued
BfsExpand ==
    /\ trAlgo = "bfs" /\ trPc = "loop"
    /\ trFrontier # <<>>
    /\ Last(Head(trFrontier)) # gEnd
    /\ LET path == Head(trFrontier)
           fresh == BfsFresh(gW, Last(path), trVisited)
       IN  /\ \E order \in Orderings(fresh) :
                  trFrontier' = Tail(trFrontier) \o Extend(path, order)
           /\ trVisited' = trVisited \cup fresh
           /\ trPopped' = Append(trPopped, Last(path))
    /\ trExpanded' = trExpanded + 1
    /\ UNCHANGED <<trAlgo, trPc, trPath, trCost, exceptTr>>

\* dfs: pop; current_node == end: return path, total_cost, expanded_nodes
DfsFound ==
    /\ trAlgo = "dfs" /\ trPc = "loop"
    /\ trFrontier # <<>>
    /\ Last(Last(trFrontier)) = gEnd
    /\ trFrontier' = Pop(trFrontier)
    /\ trExpanded' = trExpanded + 1
    /\ trPopped' = Append(trPopped, gEnd)
    /\ trPath' = Last(trFrontier)
    /\ trCost' = PathCost(gW, Last(trFrontier))
    /\ trPc' = "done"
    /\ UNCHANGED <<trAlgo, trVisited, exceptTr>>

\* dfs: pop; the neighbors that are not in path are pushed, largest first
DfsExpand ==
    /\ trAlgo = "dfs" /\ trPc = "loop"
    /\ trFrontier # <<>>
    /\ Last(Last(trFrontier)) # gEnd
    /\ LET path == Last(trFrontier)
           fresh == DfsFresh(gW, Last(path), path)
       IN  /\ trFrontier' = Pop(trFrontier) \o Extend(path, SortedReverse(fresh))
           /\ trPopped' = Append(trPopped, Last(path))
    /\ trExpanded' = trExpanded + 1
    /\ UNCHANGED <<trAlgo, trVisited, trPc, trPath, trCost, exceptTr>>

\* bfs, dfs: the while loop is over: return None, float('inf'), expanded_nodes
TrNotFound ==
    /\ trPc = "loop"
    /\ trFrontier = <<>>
    /\ trPath' = <<>>
    /\ trCost' = Infinity
    /\ trPc' = "done"
    /\ UNCHANGED <<trAlgo, trFrontier, trVisited, trExpanded, trPopped, exceptTr>>

TrNext == BfsFound \/ BfsExpand \/ DfsFound \/ DfsExpand \/ TrNotFound

SpecTraversal == InitTraversal /\ [][TrNext]_vars /\ WF_vars(TrNext)

(***************************************************************************)
(* GreedyBestFirstSearch.search(start, goal) on a graph over the first     *)
(* cities of the list, one step per iteration of the while loop.  A call   *)
(* runs until it returns, hence the weak fairness.                         *)
(***************************************************************************)
InitGreedy ==
    /\ AvlInit
    /\ BstInit
    /\ HtIdle
    /\ SsIdle
    /\ QsIdle
    /\ QiIdle
    /\ ShIdle
    /\ DjIdle
    /\ TrIdle
    /\ GenIdle
    /\ RpIdle
    /\ gW \in Graphs
    /\ gStart \in GraphNodes
    /\ gEnd \in GraphNodes
    /\ gsFrontier = {<<gStart>>}
    /\ gsVisited = {gStart}
    /\ gsExpanded = 0
    /\ gsPc = "loop"
    /\ gsPath = <<>>
    /\ gsCost = 0

\* heappop; current_node == goal: return path, total_cost, metrics
GsFound ==
    /\ gsPc = "loop"
    /\ gsFrontier # {}
    /\ Last(FrontierMin(gsFrontier, gEnd)) = gEnd
    /\ gsFrontier' = gsFrontier \ {FrontierMin(gsFrontier, gEnd)}
    /\ gsExpanded' = gsExpanded + 1
    /\ gsPath' = FrontierMin(gsFrontier, gEnd)
    /\ gsCost' = CalculatePathCost(gW, FrontierMin(gsFrontier, gEnd))
    /\ gsPc' = "done"
    /\ UNCHANGED <<gsVisited, exceptGs>>

\* heappop; the unvisited neighbors are marked and pushed with their paths
GsExpand ==
    /\ gsPc = "loop"
    /\ gsFrontier # {}
    /\ Last(FrontierMin(gsFrontier, gEnd)) # gEnd
    /\ LET path == FrontierMin(gsFrontier, gEnd)
           fresh == Neighbors(gW, Last(path)) \ gsVisited
       IN  /\ gsFrontier' = (gsFrontier \ {path}) \cup {Append(path, v) : v \in fresh}
           /\ gsVisited' = gsVisited \cup fresh
    /\ gsExpanded' = gsExpanded + 1
    /\ UNCHANGED <<gsPc, gsPath, gsCost, exceptGs>>

\* the frontier is empty: return None, float('inf'), metrics
GsNotFound ==
    /\ gsPc = "loop"
    /\ gsFrontier = {}
    /\ gsPath' = <<>>
    /\ gsCost' = Infinity
    /\ gsPc' = "done"
    /\ UNCHANGED <<gsFrontier, gsVisited, gsExpanded, exceptGs>>

GsNext == GsFound \/ GsExpand \/ GsNotFound

SpecGreedy == InitGreedy /\ [][GsNext]_vars /\ WF_vars(GsNext)

(***************************************************************************)
(* A call of a generator: one step per iteration of the for loop of the    *)
(* chain and of the while loop of the extra edges.  Every value the random *)
(* module can return is a choice of the step.                              *)
(***************************************************************************)
InitGenerate ==
    /\ AvlInit
    /\ BstInit
    /\ HtIdle
    /\ SsIdle
    /\ QsIdle
    /\ QiIdle
    /\ ShIdle
    /\ GrIdle
    /\ DjIdle
    /\ TrIdle
    /\ GsIdle
    /\ RpIdle
    /\ genFunc \in GenFuncs
    /\ genEdges = <<>>
    /\ genI = 0
    /\ genAttempts = 0
    /\ genPc = "chain"

\* for i in range(len(cities) - 1): add_edge(cities[i], cities[i + 1], weight)
GenChain ==
    /\ genPc = "chain"
    /\ genI < GenCities - 1
    /\ \E weight \in GenWeights :
           genEdges' = Append(genEdges, <<genI + 1, genI + 2, weight>>)
    /\ genI' = genI + 1
    /\ UNCHANGED <<genFunc, genAttempts, genPc, exceptGen>>

\* the chain is built; attempts = 0
GenChainEnd ==
    /\ genPc = "chain"
    /\ genI >= GenCities - 1
    /\ genPc' = "extra"
    /\ genAttempts' = 0
    /\ UNCHANGED <<genFunc, genEdges, genI, exceptGen>>

\* generate_graph: u, v = random.sample(cidades, 2); the edge is added if absent
GgAttempt ==
    /\ genPc = "extra"
    /\ genFunc = "generate_graph"
    /\ MoreExtras(genFunc, genEdges, genAttempts)
    /\ \E u, v \in Cities, weight \in GenWeights :
           /\ u # v
           /\ genEdges' = IF ~GenHasEdge(genEdges, u, v)
                          THEN Append(genEdges, <<u, v, weight>>)
                          ELSE genEdges
    /\ UNCHANGED <<genFunc, genI, genAttempts, genPc, exceptGen>>

\* create_brazilian_cities_graph: the same, and attempts += 1
CbAttempt ==
    /\ genPc = "extra"
    /\ genFunc = "create_brazilian_cities_graph"
    /\ MoreExtras(genFunc, genEdges, genAttempts)
    /\ \E u, v \in Cities, weight \in GenWeights :
           /\ u # v
           /\ genEdges' = IF ~GenHasEdge(genEdges, u, v)
                          THEN Append(genEdges, <<u, v, weight>>)
                          ELSE genEdges
    /\ genAttempts' = genAttempts + 1
    /\ UNCHANGED <<genFunc, genI, genPc, exceptGen>>

\* the while loop is over: return graph
GenReturn ==
    /\ genPc = "extra"
    /\ ~MoreExtras(genFunc, genEdges, genAttempts)
    /\ genPc' = "done"
    /\ UNCHANGED <<genFunc, genEdges, genI, genAttempts, exceptGen>>

GenNext == GenChain \/ GenChainEnd \/ GgAttempt \/ CbAttempt \/ GenReturn

SpecGenerate == InitGenerate /\ [][GenNext]_vars

(***************************************************************************)
(* generate_html_report(results, data_volumes): one step for the two       *)
(* DataFrames, one per image opened, one for html_content and one for the  *)
(* file written.  The working directory holds any of the four images, and  *)
(* a report of an earlier run or none.                                     *)
(***************************************************************************)
InitReport ==
    /\ AvlInit
    /\ BstInit
    /\ HtIdle
    /\ SsIdle
    /\ QsIdle
    /\ QiIdle
    /\ ShIdle
    /\ GrIdle
    /\ DjIdle
    /\ TrIdle
    /\ GsIdle
    /\ GenIdle
    /\ rpFiles \in SUBSET ImageSet
    /\ rpHtmlBefore \in {"absent", "old"}
    /\ rpHtml = rpHtmlBefore
    /\ rpRead = <<>>
    /\ rpPc = "frames"

\* df_bst and df_avl are built
RpFrames ==
    /\ rpPc = "frames"
    /\ rpPc' = "open"
    /\ UNCHANGED <<rpFiles, rpHtmlBefore, rpHtml, rpRead, exceptRp>>

\* with open(<image>, "rb"): the next image is read
RpOpen ==
    /\ rpPc = "open"
    /\ Len(rpRead) < Len(Images)
    /\ CanOpen(rpFiles, Images[Len(rpRead) + 1])
    /\ rpRead' = Append(rpRead, Images[Len(rpRead) + 1])
    /\ UNCHANGED <<rpFiles, rpHtmlBefore, rpHtml, rpPc, exceptRp>>

\* open raises FileNotFoundError: the message is printed and the function returns
RpFileNotFound ==
    /\ rpPc = "open"
    /\ Len(rpRead) < Len(Images)
    /\ ~CanOpen(rpFiles, Images[Len(rpRead) + 1])
    /\ rpPc' = "aborted"
    /\ UNCHANGED <<rpFiles, rpHtmlBefore, rpHtml, rpRead, exceptRp>>

\* the four images are read: html_content is built
RpContent ==
    /\ rpPc = "open"
    /\ Len(rpRead) = Len(Images)
    /\ rpPc' = "write"
    /\ UNCHANGED <<rpFiles, rpHtmlBefore, rpHtml, rpRead, exceptRp>>

\* with open("relatorio_desempenho.html", "w"): file.write(html_content)
RpWrite ==
    /\ rpPc = "write"
    /\ rpHtml' = "report"
    /\ rpPc' = "written"
    /\ UNCHANGED <<rpFiles, rpHtmlBefore, rpRead, exceptRp>>

RpNext == RpFrames \/ RpOpen \/ RpFileNotFound \/ RpContent \/ RpWrite

SpecReport == InitReport /\ [][RpNext]_vars

(***************************************************************************)
(* Properties of AVLTree (SpecAVL)                                         *)
(***************************************************************************)
BalanceFactor(n) == TrueHeight(Left(n)) - TrueHeight(Right(n))

\* C1: after any sequence of AVLTree.insert calls (repeated values allowed)
\* every node has a balance factor, computed from true heights, in {-1, 0, 1}.
\* Violated: with a repeated value neither rotation case matches
\* (data = node.right.data), e.g. insert 1, 1, 1 leaves a chain.
AvlBalanced ==
    \A n \in Subtrees(avlRoot) : BalanceFactor(n) \in {-1, 0, 1}

\* C2: after any sequence of AVLTree.insert calls the stored height of every
\* node is 1 + max(true height of left subtree, true height of right subtree),
\* also for the nodes moved by the rotations.
AvlHeightsStored ==
    \A n \in Subtrees(avlRoot) :
        Height(n) = 1 + Max(TrueHeight(Left(n)), TrueHeight(Right(n)))

\* Inserting 3, 1, 2 takes the Left Right case: _left_rotate on node 1, then
\* _right_rotate on node 3, which leaves 2 at the root.
AvlDoubleRotationDone ==
    /\ avlSeq = <<3, 1, 2>>
    /\ Data(avlRoot) = 2
    /\ Data(Left(avlRoot)) = 1
    /\ Data(Right(avlRoot)) = 3

\* C3: after any sequence of AVLTree.insert calls (repeated values allowed)
\* the tree is value-ordered: everything in a node's left subtree is <= its
\* data, everything in its right subtree is >= its data, and the in-order
\* traversal is non-decreasing.
AvlValueOrdered ==
    /\ \A n \in Subtrees(avlRoot) :
          /\ \A v \in TreeValues(Left(n)) : v <= Data(n)
          /\ \A v \in TreeValues(Right(n)) : v >= Data(n)
    /\ NonDecreasing(InOrder(avlRoot))

\* Inserting 1, 1, 2 rotates left at the root: the first 1 ends up in the left
\* subtree of the equal second 1.
AvlEqualValueOnLeft ==
    /\ avlSeq = <<1, 1, 2>>
    /\ Left(avlRoot) # None
    /\ Data(Left(avlRoot)) = Data(avlRoot)
    /\ Data(Right(avlRoot)) = 2

\* C4: AVLTree.search(x) returns a node whose data is x for every x that was
\* inserted and None for every x never inserted (every search step, taken
\* after any sequence of inserts, repeated values allowed).
AvlSearchCorrect ==
    [][(avlSeq' = avlSeq /\ avlQuery' # <<>>) =>
          LET x == avlQuery'[1]
          IN IF x \in SeqValues(avlSeq)
             THEN avlFound' # None /\ Data(avlFound') = x
             ELSE avlFound' = None]_vars

\* A search that has to descend to the right below an equal-valued chain, and
\* one for a value never inserted.
AvlSearchHit ==
    /\ Len(avlSeq) >= 4
    /\ Cardinality(SeqValues(avlSeq)) < Len(avlSeq)
    /\ avlQuery = <<3>>
    /\ avlFound # None
    /\ avlFound # avlRoot
    /\ Data(avlFound) = 3

(***************************************************************************)
(* Properties of BinaryTree (SpecBST)                                      *)
(***************************************************************************)
BstStrictOrder ==
    /\ \A n \in Subtrees(bstRoot) :
          /\ \A v \in TreeValues(Left(n)) : v < Data(n)
          /\ \A v \in TreeValues(Right(n)) : v > Data(n)
    /\ Increasing(InOrder(bstRoot))

BstSearchStepCorrect ==
    (bstSeq' = bstSeq /\ bstQuery' # <<>>) =>
        LET x == bstQuery'[1]
        IN IF x \in SeqValues(bstSeq)
           THEN bstFound' # None /\ Data(bstFound') = x
           ELSE bstFound' = None

\* C5: after any sequence of BinaryTree.insert calls (repeated values allowed)
\* search(x) returns a node with data x for every inserted x and None for every
\* x never inserted, and the tree keeps the strict search-tree order.
BstSearchAndOrder ==
    /\ []BstStrictOrder
    /\ [][BstSearchStepCorrect]_vars

\* A value inserted twice, then found below the root.
BstSearchHit ==
    /\ bstSeq = <<2, 1, 3, 1>>
    /\ bstQuery = <<1>>
    /\ bstFound # None
    /\ bstFound = Left(bstRoot)
    /\ Data(bstFound) = 1

(***************************************************************************)
(* Properties of HashTable (SpecHash) and of the experiment's round        *)
(* (SpecRound)                                                             *)
(***************************************************************************)
DistinctKeys(log) == \A i, j \in 1..Len(log) : log[i][1] = log[j][1] => i = j

RECURSIVE SumLen(_)
SumLen(table) == IF table = <<>> THEN 0 ELSE Len(Head(table)) + SumLen(Tail(table))

NonEmptyBuckets(table) == Cardinality({b \in 1..Len(table) : table[b] # <<>>})

\* C6: after inserting pairs with pairwise distinct keys into a table of any
\* size M >= 1 under any of the hash functions, search(k) of an inserted key
\* returns (the value inserted with k, i) with i the 1-based position of k in
\* its bucket, and search of a key never inserted returns (None, n) with n the
\* length of the bucket the key hashes to.
HtSearchCorrect ==
    [][(htLog' = htLog /\ htQuery' # <<>> /\ DistinctKeys(htLog)) =>
          LET k == htQuery'[1]
              b == Bucket(htTable, HashOf(htFunc, k, htM))
              i == htResult'[2]
          IN IF k \in LogKeys(htLog)
             THEN /\ \E j \in 1..Len(htLog) :
                        htLog[j][1] = k /\ htResult'[1] = htLog[j][2]
                  /\ i \in 1..Len(b)
                  /\ b[i][1] = k
             ELSE htResult' = <<NoValue, Len(b)>>]_vars

\* "01" and "10" have the same ASCII sum, so under hash_func1 they share a
\* bucket and the second one is found at position 2.
HtSearchSecondInBucket ==
    /\ htM = 2
    /\ htFunc = "hash_func1"
    /\ htLog = <<(<<(<<0, 1>>), "a">>), (<<(<<1, 0>>), "b">>)>>
    /\ htQuery = <<(<<1, 0>>)>>
    /\ htResult = <<"b", 2>>

\* C7: in every state reached by insert and search calls the table has exactly
\* M buckets, every stored pair lies in the bucket hash_func(key, M), and
\* insercoes equals the number of insert calls made and the sum of the bucket
\* lengths (so insercoes / M is the number of stored items over M).
HtTableInvariant ==
    /\ Len(htTable) = htM
    /\ \A h \in 0..(htM - 1) :
          \A i \in 1..Len(Bucket(htTable, h)) :
              HashOf(htFunc, Bucket(htTable, h)[i][1], htM) = h
    /\ htInsercoes = Len(htLog)
    /\ htInsercoes = SumLen(htTable)

\* Three inserts, one key twice, spread over two of three buckets, and a search.
HtThreeInserted ==
    /\ htM = 3
    /\ htInsercoes = 3
    /\ ~DistinctKeys(htLog)
    /\ NonEmptyBuckets(htTable) = 2
    /\ htQuery # <<>>

HrCountsOccupiedTarget ==
    (Len(htLog') = Len(htLog) + 1) =>
        LET key == htLog'[Len(htLog')][1]
            occupied == Len(Bucket(htTable, HashOf(htFunc, key, htM))) > 0
        IN hrColisoes' = IF occupied THEN hrColisoes + 1 ELSE hrColisoes

HrCountIsInsertsMinusBuckets ==
    /\ hrColisoes = Len(htLog) - NonEmptyBuckets(htTable)
    /\ (Len(htLog) = hrN /\ hrN > htM) => hrColisoes >= hrN - htM

\* C8: in a round an insertion counts as a collision exactly when its target
\* bucket already holds an item, so after the N insertions the count is N
\* minus the number of non-empty buckets (hence >= N - M when N > M).
HrCollisionCount ==
    /\ []HrCountIsInsertsMinusBuckets
    /\ [][HrCountsOccupiedTarget]_vars

\* A finished round with more records than buckets.
HrRoundDone ==
    /\ hrN = 3
    /\ htM = 2
    /\ Len(htLog) = hrN
    /\ NonEmptyBuckets(htTable) = 2
    /\ hrColisoes = 1

(***************************************************************************)
(* Properties of the sorting functions (SpecSelection, SpecQuick)          *)
(***************************************************************************)
Matriculas(list) == [i \in 1..Len(list) |-> Matricula(list[i])]

Count(list, person) == Cardinality({i \in 1..Len(list) : list[i] = person})

\* the same elements, each as often
SameElements(a, b) ==
    /\ Len(a) = Len(b)
    /\ \A person \in Persons : Count(a, person) = Count(b, person)

\* C9: for every list of Person records (the empty list, one element, sorted,
\* reverse-sorted, any other) selection_sort returns the list with exactly the
\* input elements in non-decreasing order of matricula.
\* Violated: the return sits inside the outer loop, so the function returns
\* after the pass for i = 0 (and returns None for the empty list).
SelectionSortSorts ==
    ssPc = "done" =>
        /\ ssRet = "array"
        /\ SameElements(ssArr, ssInput)
        /\ NonDecreasing(Matriculas(ssArr))

QsDone == qsStack = <<>>

QsResultSorted ==
    QsDone => SameElements(qsRet, qsInput) /\ NonDecreasing(Matriculas(qsRet))

\* C10: for every list of Person records (repeated matriculas allowed)
\* quick_sort returns a permutation of the input in non-decreasing order of
\* matricula, and the recursion terminates.
QuickSortSortsAndTerminates ==
    /\ []QsResultSorted
    /\ <>QsDone

\* Three records, two of them with the pivot's matricula, sorted.
QsSortedWithRepeats ==
    /\ qsInput = <<(<<2, "A">>), (<<1, "A">>), (<<2, "B">>)>>
    /\ QsDone
    /\ qsRet = <<(<<1, "A">>), (<<2, "B">>), (<<2, "A">>)>>

QiDone == qiStack = <<>>

QiResultSorted ==
    QiDone =>
        /\ qiRet = "arr"
        /\ SameElements(qiArr, qiInput)
        /\ NonDecreasing(Matriculas(qiArr))

\* a step in which split returns p to the call at the top of the stack
QiSplitReturns == qiStack # <<>> /\ Top(qiStack).pc = "split" /\ Len(qiStack') = Len(qiStack) + 1

\* what holds of arr, start, end and the returned p right after split returns
SplitPost(arr, entry, start, end, p) ==
    /\ start <= p
    /\ p <= end
    /\ \A k \in start..(p - 1) : Matricula(At(arr, k)) <= Matricula(At(arr, p))
    /\ \A k \in (p + 1)..end : Matricula(At(arr, k)) > Matricula(At(arr, p))
    /\ \A k \in 0..(Len(arr) - 1) : (k < start \/ k > end) => At(arr, k) = At(entry, k)

QiSplitStepCorrect ==
    QiSplitReturns =>
        SplitPost(qiArr', qiSplit.entry, Top(qiStack).start, Top(qiStack).end,
                  qiStack'[Len(qiStack)].p)

\* C11: for every list of Person records quicksort_inplace terminates and
\* returns the same list, holding a permutation of the input in
\* non-decreasing order of matricula; and every call of split returns p with
\* start <= p <= end, the elements at start..p-1 not above arr[p], the
\* elements at p+1..end above arr[p], and the positions outside start..end
\* untouched.
QuicksortInplaceSortsAndSplits ==
    /\ []QiResultSorted
    /\ [][QiSplitStepCorrect]_vars
    /\ <>QiDone

\* Three records with a repeated matricula, sorted after a split that moved
\* the pivot to the middle.
QiSortedAfterSplits ==
    /\ qiInput = <<(<<2, "A">>), (<<3, "A">>), (<<2, "B">>)>>
    /\ QiDone
    /\ qiRet = "arr"
    /\ qiArr = <<(<<2, "A">>), (<<2, "B">>), (<<3, "A">>)>>

(***************************************************************************)
(* Properties of the searching functions (SpecSearch)                      *)
(***************************************************************************)
\* the index a search has to return: the position of target, -1 if there is none
Expected(arr, target, ret) ==
    IF \E i \in 0..(Len(arr) - 1) : Matricula(At(arr, i)) = target
    THEN ret \in 0..(Len(arr) - 1) /\ Matricula(At(arr, ret)) = target
    ELSE ret = -1

SearchesAgree ==
    /\ bsDone => Expected(shArr, shTarget, bsRet)
    /\ sqDone => Expected(shArr, shTarget, sqRet)
    /\ (bsDone /\ sqDone) => bsRet = sqRet

\* C12: on every array sorted by matricula with distinct matriculas
\* binary_search terminates and returns what sequential_search returns: the
\* index i with arr[i].matricula = target when the target is present, -1 when
\* it is absent (the empty array included).
BinarySearchAgreesAndTerminates ==
    /\ []SearchesAgree
    /\ <>(bsDone /\ sqDone)

\* The last of three records is found by both searches, binary_search after
\* moving left past the middle.
BsFoundRightOfMiddle ==
    /\ Len(shArr) = 3
    /\ shTarget = Matricula(At(shArr, 2))
    /\ bsDone /\ sqDone
    /\ bsLeft = 2
    /\ bsRet = 2
    /\ sqRet = 2

(***************************************************************************)
(* Properties of the graph searches (SpecDijkstra)                         *)
(***************************************************************************)
Min(a, b) == IF a < b THEN a ELSE b

RECURSIVE MinOver(_, _, _)
MinOver(S, f(_), top) ==
    IF S = {} THEN top
    ELSE LET x == CHOOSE y \in S : TRUE IN Min(f(x), MinOver(S \ {x}, f, top))

\* the least total weight of a walk of at most k edges from u to v (Infinity: none)
RECURSIVE MinDist(_, _, _, _)
MinDist(G, u, v, k) ==
    IF u = v THEN 0
    ELSE IF k = 0 THEN Infinity
    ELSE LET via(w) == Min(Infinity, MinDist(G, u, w, k - 1) + Weight(G, w, v))
         IN  MinOver(Neighbors(G, v), via, Infinity)

ShortestDistance(G, u, v) == MinDist(G, u, v, Cardinality(GraphNodes) - 1)

Reachable(G, u, v) == ShortestDistance(G, u, v) < Infinity

Connected(G) == \A u, v \in GraphNodes : Reachable(G, u, v)

\* path starts at u, ends at v and follows edges of G
IsPath(G, path, u, v) ==
    /\ path # <<>>
    /\ path[1] = u
    /\ path[Len(path)] = v
    /\ \A i \in 1..(Len(path) - 1) : HasEdge(G, path[i], path[i + 1])

RECURSIVE SumWeights(_, _)
SumWeights(G, path) ==
    IF Len(path) < 2 THEN 0
    ELSE Weight(G, path[1], path[2]) + SumWeights(G, Tail(path))

\* C13: for every connected undirected graph with positive integer edge
\* weights and every pair (start, end), dijkstra returns a path that begins
\* at start, ends at end and follows existing edges, with a distance that is
\* the sum of the path's edge weights and is minimal over all paths from
\* start to end.
DijkstraShortestPath ==
    (djPc = "done" /\ Connected(gW)) =>
        /\ IsPath(gW, djPath, gStart, gEnd)
        /\ djDistance = SumWeights(gW, djPath)
        /\ djDistance = ShortestDistance(gW, gStart, gEnd)

\* A connected graph in which the direct edge to the end is dearer than a
\* detour: dijkstra returns the detour, after skipping a stale queue entry.
DjDetourReturned ==
    /\ djPc = "done"
    /\ Connected(gW)
    /\ HasEdge(gW, gStart, gEnd)
    /\ Len(djPath) = 3
    /\ djDistance < Weight(gW, gStart, gEnd)
    /\ djExpanded > Len(djPath)

(***************************************************************************)
(* Properties of bfs and dfs (SpecTraversal)                               *)
(***************************************************************************)
\* the least number of edges of a walk of at most k edges from u to v
RECURSIVE MinHops(_, _, _, _)
MinHops(G, u, v, k) ==
    IF u = v THEN 0
    ELSE IF k = 0 THEN Infinity
    ELSE LET via(w) == Min(Infinity, MinHops(G, u, w, k - 1) + 1)
         IN  MinOver(Neighbors(G, v), via, Infinity)

FewestEdges(G, u, v) == MinHops(G, u, v, Cardinality(GraphNodes) - 1)

\* C14: for every graph in which end is reachable from start, bfs returns a
\* path from start to end with the fewest edges of all start-end paths, and
\* the returned total_cost is the sum of the weights of that path's edges.
BfsFewestEdges ==
    (trAlgo = "bfs" /\ trPc = "done" /\ Reachable(gW, gStart, gEnd)) =>
        /\ IsPath(gW, trPath, gStart, gEnd)
        /\ Len(trPath) - 1 = FewestEdges(gW, gStart, gEnd)
        /\ trCost = SumWeights(gW, trPath)

\* bfs returned a direct edge of weight GMaxWeight although a path of two
\* edges is cheaper.
BfsDirectEdgeReturned ==
    /\ trAlgo = "bfs" /\ trPc = "done"
    /\ Len(trPath) = 2
    /\ trCost = GMaxWeight
    /\ ShortestDistance(gW, gStart, gEnd) < trCost

TrDone == trPc = "done"

Simple(path) == \A i, j \in 1..Len(path) : path[i] = path[j] => i = j

TrResultCorrect ==
    TrDone =>
        /\ Reachable(gW, gStart, gEnd) =>
               IsPath(gW, trPath, gStart, gEnd) /\ Simple(trPath)
        /\ (trPath = <<>> /\ trCost = Infinity) <=> ~Reachable(gW, gStart, gEnd)

\* C15: on every finite undirected graph (cycles allowed) bfs and dfs
\* terminate, return a simple path that starts at start, ends at end and
\* follows existing edges whenever end is reachable from start, and return
\* (None, infinity, expanded_nodes) exactly when end is not reachable.
TraversalsFindAPath ==
    /\ []TrResultCorrect
    /\ <>TrDone

\* dfs on a graph with a cycle through start returned a path of three edges
\* to an end that is also a neighbor of start.
DfsLongPathOnCycle ==
    /\ trAlgo = "dfs" /\ TrDone
    /\ HasEdge(gW, gStart, gEnd)
    /\ Len(trPath) = 4
    /\ Simple(trPath)

\* C16: during any run of dfs each vertex is popped from the stack and
\* expanded at most once, so expanded_nodes never exceeds the number of
\* vertices of the graph; the same holds for bfs.
\* Violated by dfs: it keeps no visited set, only the path of each entry, so
\* a vertex is pushed once for every simple path that leads to it.
ExpandedAtMostOnce ==
    /\ Simple(trPopped)
    /\ trExpanded <= Cardinality(GraphNodes)

(***************************************************************************)
(* Properties of the greedy search (SpecGreedy)                            *)
(***************************************************************************)
GsDone == gsPc = "done"

GsResultCorrect ==
    GsDone =>
        /\ Reachable(gW, gStart, gEnd) =>
               /\ IsPath(gW, gsPath, gStart, gEnd)
               /\ gsCost = SumWeights(gW, gsPath)
        /\ (gsPath = <<>> /\ gsCost = Infinity) => ~Reachable(gW, gStart, gEnd)

\* C17: GreedyBestFirstSearch.search is complete on finite graphs: it
\* terminates, returns a path that starts at start, ends at goal and follows
\* existing edges, with total cost the sum of those edges' weights, whenever
\* goal is reachable from start, and returns (None, infinity, metrics) only
\* when goal is unreachable.
GreedySearchComplete ==
    /\ []GsResultCorrect
    /\ <>GsDone

\* The search returned a path of two edges that is dearer than the best.
GsDearPathReturned ==
    /\ GsDone
    /\ Len(gsPath) = 3
    /\ gsCost = SumWeights(gW, gsPath)
    /\ gsCost > ShortestDistance(gW, gStart, gEnd)

(***************************************************************************)
(* Properties of the generated graphs (SpecGenerate)                       *)
(***************************************************************************)
GenDone == genPc = "done"

\* the cities joined to a city of S by a path of the generated graph
RECURSIVE JoinedTo(_, _)
JoinedTo(edges, S) ==
    LET T == S \cup {v \in Cities : \E u \in S : GenHasEdge(edges, u, v)}
    IN  IF T = S THEN S ELSE JoinedTo(edges, T)

GenConnected(edges) == JoinedTo(edges, {1}) = Cities

\* no self-loops, no parallel edges, every weight in 100..1000
GenSimple(edges) ==
    /\ \A k \in 1..Len(edges) :
           /\ edges[k][1] \in Cities /\ edges[k][2] \in Cities
           /\ edges[k][1] # edges[k][2]
           /\ edges[k][3] \in GenMinWeight..GenMaxWeight
    /\ \A k, m \in 1..Len(edges) :
           {edges[k][1], edges[k][2]} = {edges[m][1], edges[m][2]} => k = m

\* C19: whatever random choices are made, generate_graph and
\* create_brazilian_cities_graph return a connected simple undirected graph
\* over the cities (no self-loops, no parallel edges) in which every edge
\* carries an integer weight in 100..1000; create_brazilian_cities_graph
\* stops after at most max_attempts attempts with between len(cities) - 1
\* and len(cities) - 1 + extra_edges edges (50 attempts, 11 to 19 edges for
\* the 12 cities of the code).
GeneratedGraphWellFormed ==
    /\ GenSimple(genEdges)
    /\ genAttempts <= CbMaxAttempts
    /\ GenDone =>
           /\ GenConnected(genEdges)
           /\ genFunc = "create_brazilian_cities_graph" =>
                  /\ NumberOfEdges(genEdges) >= GenCities - 1
                  /\ NumberOfEdges(genEdges) <= GenCities - 1 + CbExtraEdges

\* create_brazilian_cities_graph returned because the attempts ran out, with
\* one extra edge only.
CbStoppedByAttempts ==
    /\ GenDone
    /\ genFunc = "create_brazilian_cities_graph"
    /\ genAttempts = CbMaxAttempts
    /\ NumberOfEdges(genEdges) = GenCities

\* the weight of the edge between u and v
GenWeight(edges, u, v) ==
    LET k == CHOOSE m \in 1..Len(edges) : {edges[m][1], edges[m][2]} = {u, v}
    IN  edges[k][3]

GenInfinity == GenCities * GenMaxWeight

\* the least total weight of a walk of at most k edges from u to v
RECURSIVE GenMinCost(_, _, _, _)
GenMinCost(edges, u, v, k) ==
    IF u = v THEN 0
    ELSE IF k = 0 THEN GenInfinity
    ELSE LET via(w) == Min(GenInfinity, GenMinCost(edges, u, w, k - 1) + GenWeight(edges, w, v))
         IN  MinOver({w \in Cities : GenHasEdge(edges, w, v)}, via, GenInfinity)

TrueCost(edges, u, v) == GenMinCost(edges, u, v, GenCities - 1)

\* C18: the Euclidean heuristic is admissible: for every graph that
\* create_brazilian_cities_graph can produce and the city coordinates of
\* main, euclidean_heuristic(n, goal) never exceeds the true minimum path
\* cost from n to goal, for every pair of cities.  (h <= c is compared as
\* h * h <= c * c.)
\* Violated: the heuristic is the distance in degrees times 100, which is
\* above the weight of an edge whenever randint draws a small weight.
HeuristicAdmissible ==
    (GenDone /\ genFunc = "create_brazilian_cities_graph") =>
        \A n, goal \in Cities :
            HeuristicSquared(n, goal)
                <= TrueCost(genEdges, n, goal) * TrueCost(genEdges, n, goal)

(***************************************************************************)
(* Properties of the report (SpecReport)                                   *)
(***************************************************************************)
\* C20: when any of the four comparison PNG files is missing,
\* generate_html_report aborts: relatorio_desempenho.html is neither created
\* nor overwritten, whichever of the four files is the missing one.
MissingImageKeepsReport ==
    rpFiles # ImageSet =>
        /\ rpHtml = rpHtmlBefore
        /\ rpPc \notin {"write", "written"}

\* Only the last image is missing: three images were read, the function
\* returned from the handler and the report of an earlier run is untouched.
RpAbortedAtLastImage ==
    /\ rpFiles = ImageSet \ {Images[Len(Images)]}
    /\ rpPc = "aborted"
    /\ Len(rpRead) = Len(Images) - 1
    /\ rpHtmlBefore = "old"
    /\ rpHtml = "old"

(***************************************************************************)
(* Node counts of the trees (SpecAVL, SpecBST)                             *)
(***************************************************************************)
\* the number of nodes reachable from n by its links
NodeCount(n) == Len(InOrder(n))

\* C21: AVLTree.insert avoids duplication: inserting a value that is already
\* stored does not create an additional node, so after any sequence of
\* inserts the number of nodes equals the number of distinct values inserted.
\* Violated: _insert_node sends data >= node.data to the right subtree, where
\* a value equal to node.data becomes a new node.
AvlNoDuplicateNodes ==
    ~avlRaised => NodeCount(avlRoot) = Cardinality(SeqValues(avlSeq))

BstNodeCount == NodeCount(bstRoot) = Cardinality(SeqValues(bstSeq))

\* an insert call of a value in the tree leaves the tree as it is; an insert
\* of a new value adds one node
BstInsertStepIdempotent ==
    (bstSeq' # bstSeq) =>
        LET x == bstSeq'[Len(bstSeq')]
        IN  IF x \in TreeValues(bstRoot)
            THEN bstRoot' = bstRoot
            ELSE NodeCount(bstRoot') = NodeCount(bstRoot) + 1

\* C22: BinaryTree.insert is idempotent per value: inserting a value that is
\* already in the tree leaves the tree's shape and contents unchanged, so
\* after any sequence of inserts the number of nodes equals the number of
\* distinct values inserted.
BstInsertIdempotent ==
    /\ []BstNodeCount
    /\ [][BstInsertStepIdempotent]_vars

\* Three values inserted, then the root's value and a leaf's value again:
\* the tree still has its three nodes.
BstRepeatsInserted ==
    /\ bstSeq = <<2, 1, 3, 2, 1>>
    /\ NodeCount(bstRoot) = 3
    /\ Data(bstRoot) = 2
    /\ Data(Left(bstRoot)) = 1
    /\ Data(Right(bstRoot)) = 3

=============================================================================
